---------------------------- MODULE Spec2Model ----------------------------
(***************************************************************************)
(* Model of vdf-wasm/src/lib.rs: the Wesolowski VDF prover and verifier    *)
(* (VDFComputer::compute_proof_internal, verify_proof_internal), the prime *)
(* generator, the Miller-Rabin test and the base64 proof encoding.         *)
(*                                                                         *)
(* The arithmetic is the program's, on numbers small enough to enumerate:  *)
(* the 2048-bit modulus, the 256-bit digest, the 128-bit challenge prime   *)
(* and the iteration range 1000..10_000_000 are replaced by the stand-ins  *)
(* named below (Modulus, Hash, PrimeBits, MinLBits, MinIter, MaxIter,      *)
(* ChunkSize, MaxAttempts).  The Miller-Rabin round counts (20 and 5) and  *)
(* the base64 alphabet are the program's own.                              *)
(***************************************************************************)
EXTENDS Integers, Sequences, FiniteSets, TLC

VARIABLES
    pc,          \* position of the caller: idle, gen, gen_mr, square, final, build, done, v_mr, v_done
    input,       \* the input string of compute_proof / verify_proof
    iterations,  \* the iterations argument of compute_proof (kept for reference after it returns)
    attempts,    \* generate_prime: attempts used so far
    cand,        \* generate_prime: the candidate under test
    mr,          \* is_probable_prime: the call in progress
    l,           \* compute_proof_internal: the challenge prime
    r,           \* compute_proof_internal: 2^t mod l
    y,           \* compute_proof_internal: the running square
    chunk,       \* compute_proof_internal: the loop index i of the chunk loop
    squarings,   \* number of modular squarings performed so far
    reports,     \* the calls made to on_progress: <<[pct, at]>>, at = squarings done at the call
    cbFailures,  \* how many of those calls returned Err
    result,      \* what compute_proof returned: "none", "Ok" or an error
    proof,       \* the VDFProof handed to verify_proof
    tampered,    \* what was changed in the proof after compute_proof returned it
    outcome      \* what verify_proof returned

vars == <<pc, input, iterations, attempts, cand, mr, l, r, y, chunk, squarings,
          reports, cbFailures, result, proof, tampered, outcome>>

-----------------------------------------------------------------------------
(* Stand-ins for the program's sizes. *)

\* iterations < 1000 is rejected (lib.rs:94, 160); here MinIter.
MinIter == 5
\* iterations > 10_000_000 is rejected (lib.rs:94, 160); here MaxIter.
MaxIter == 9
\* chunk_size = 1000 (lib.rs:114); here ChunkSize.
ChunkSize == 2
\* generate_prime(128) (lib.rs:105); here PrimeBits.
PrimeBits == 5
\* l.bits() < 120 is rejected (lib.rs:177); here MinLBits.
MinLBits == 4
\* max_attempts = 1000 (lib.rs:205); here MaxAttempts.
MaxAttempts == 2
\* The round counts handed to is_probable_prime when it is exercised alone.
MaxRounds == 2

\* is_probable_prime(&candidate, 20) (lib.rs:213).
GenRounds == 20
\* is_probable_prime(&l, 5) (lib.rs:177).
VerifyRounds == 5

\* The modulus of VDFComputer::new (lib.rs:69): an odd composite with two
\* prime factors, wider than the digest.
Modulus == 23 * 29

\* The inputs handed to compute_proof and verify_proof.
Inputs == {"test", "ember"}

\* x = BigUint::from_bytes_be(Sha256(input)) (lib.rs:99-102): the digest, cut
\* to its leading byte (SHA-256("test") = 9f86..., SHA-256("ember") = 7cad...).
Hash(s) == CASE s = "test" -> 159
             [] s = "ember" -> 124
             [] OTHER -> 44

-----------------------------------------------------------------------------
(* BigUint arithmetic. *)

RECURSIVE Pow2(_)
Pow2(n) == IF n = 0 THEN 1 ELSE 2 * Pow2(n - 1)

\* BigUint::bits: the number of significant bits, 0 for 0.
RECURSIVE Bits(_)
Bits(v) == IF v = 0 THEN 0 ELSE 1 + Bits(v \div 2)

\* (a * b) % m without leaving the range of the checker's integers.
MulMod(a, b, m) ==
    IF m < 46341 THEN (a * b) % m
    ELSE (((((a * (b \div 512)) % m) * 512) % m) + ((a * (b % 512)) % m)) % m

\* BigUint::modpow.
RECURSIVE ModPow(_, _, _)
ModPow(b, e, m) ==
    IF m = 1 THEN 0
    ELSE IF e = 0 THEN 1
    ELSE LET h == ModPow(b, e \div 2, m)
             s == MulMod(h, h, m)
         IN  IF e % 2 = 1 THEN MulMod(s, b % m, m) ELSE s


\* calculate_power_safely: the loop over exp_val, result and current_power.
RECURSIVE PowerLoop(_, _, _)
PowerLoop(exp_val, res, current_power) ==
    IF exp_val > 0
    THEN PowerLoop(exp_val \div 2,
                   IF exp_val % 2 = 1 THEN res * current_power ELSE res,
                   current_power * current_power)
    ELSE res

\* calculate_power_safely(iterations): the full-precision 2^iterations.
calculate_power_safely(t) == IF t = 0 THEN 1 ELSE PowerLoop(t, 1, 2)

\* y = (&y * &y) % &self.modulus, count times over.
RECURSIVE SquareTimes(_, _)
SquareTimes(v, count) ==
    IF count = 0 THEN v ELSE SquareTimes((v * v) % Modulus, count - 1)

-----------------------------------------------------------------------------
(* is_probable_prime *)

\* n - 1 = 2^r * d with d odd: the loop "while d.is_even()".
RECURSIVE OddPart(_)
OddPart(d) == IF d % 2 = 0 THEN OddPart(d \div 2) ELSE d

RECURSIVE TwoExponent(_)
TwoExponent(d) == IF d % 2 = 0 THEN 1 + TwoExponent(d \div 2) ELSE 0

\* The inner loop "for _ in 0..r-1": squares x up to j times looking for n - 1.
RECURSIVE SquareSearch(_, _, _)
SquareSearch(x, j, n) ==
    IF j <= 0 THEN FALSE
    ELSE LET x2 == ModPow(x, 2, n)
         IN  IF x2 = n - 1 THEN TRUE ELSE SquareSearch(x2, j - 1, n)

\* One turn of the witness loop with base a: TRUE when it ends in
\* "continue 'witness", FALSE when it reaches "return false".
WitnessPasses(a, n) ==
    LET d == OddPart(n - 1)
        e == TwoExponent(n - 1)
        x == ModPow(a, d, n)
    IN  IF x = 1 \/ x = n - 1 THEN TRUE ELSE SquareSearch(x, e - 1, n)

\* rng.gen_biguint_range(&two, &(n - &two)): the bases a with 2 <= a < n - 2.
Bases(n) == 2..(n - 3)

\* What one turn of the witness loop can do on n, over every base the
\* generator can draw.
RoundOutcomes(n) == {b \in BOOLEAN : \E a \in Bases(n) : WitnessPasses(a, n) = b}

\* The checks made before the witness loop: "false" for n <= 1 and for even
\* n > 2, "true" for 2 and 3, "loop" when the witness loop decides.
PreCheck(n) ==
    IF n <= 1 THEN "false"
    ELSE IF n = 2 \/ n = 3 THEN "true"
    ELSE IF n % 2 = 0 THEN "false"
    ELSE "loop"

\* The state of a call is_probable_prime(n, k) on entry to the witness loop:
\* res is "run" while the loop runs, else the value returned; round counts the
\* turns completed and sampled the bases drawn.
MREnter(n, k) ==
    LET pre == PreCheck(n)
    IN  [n |-> n, k |-> k, round |-> 0, sampled |-> 0,
         res |-> IF pre = "loop" THEN (IF k = 0 THEN "true" ELSE "run") ELSE pre]

\* No call in progress.
MRIdle == [n |-> 0, k |-> 0, round |-> 0, sampled |-> 0, res |-> "none"]

\* A witness loop that notes a failing base and goes on to the next turn.
MRAfterRound_noShortCircuit(m, ok) ==
    [m EXCEPT !.round = m.round + 1, !.sampled = m.sampled + 1,
              !.res = IF m.round + 1 = m.k THEN "true" ELSE "run"]

\* The call after one more turn of the witness loop whose base passed (ok) or
\* did not: a failing base returns false at once, the k-th passing base ends
\* the loop and returns true.
MRAfterRound(m, ok) ==
    IF ok
    THEN [m EXCEPT !.round = m.round + 1, !.sampled = m.sampled + 1,
                   !.res = IF m.round + 1 = m.k THEN "true" ELSE "run"]
    ELSE [m EXCEPT !.sampled = m.sampled + 1, !.res = "false"]

-----------------------------------------------------------------------------
(* The proof's transport encoding: big-endian bytes in standard base64. *)

\* The symbols of a base64 text: 0..63 are the alphabet A-Z a-z 0-9 + /,
\* PadChar is '=', BadChar stands for every byte outside the alphabet.
AlphabetSize == 64
PadChar == 64
BadChar == 65
Chars == 0..BadChar

\* BigUint::to_bytes_be: minimal length, zero is the single byte 0.
RECURSIVE to_bytes_be(_)
to_bytes_be(v) ==
    IF v < 256 THEN <<v>> ELSE to_bytes_be(v \div 256) \o <<v % 256>>

\* BigUint::from_bytes_be.
RECURSIVE from_bytes_be(_)
from_bytes_be(b) ==
    IF Len(b) = 0 THEN 0
    ELSE from_bytes_be(SubSeq(b, 1, Len(b) - 1)) * 256 + b[Len(b)]

\* general_purpose::STANDARD.encode.
RECURSIVE Base64Encode(_)
Base64Encode(b) ==
    IF Len(b) = 0 THEN <<>>
    ELSE IF Len(b) = 1
        THEN <<b[1] \div 4, (b[1] % 4) * 16, PadChar, PadChar>>
    ELSE IF Len(b) = 2
        THEN <<b[1] \div 4, (b[1] % 4) * 16 + b[2] \div 16, (b[2] % 16) * 4, PadChar>>
    ELSE <<b[1] \div 4, (b[1] % 4) * 16 + b[2] \div 16,
           (b[2] % 16) * 4 + b[3] \div 64, b[3] % 64>>
         \o Base64Encode(SubSeq(b, 4, Len(b)))

IsData(c) == c < AlphabetSize

\* A decoder that does not look at the bits a padded group leaves over.
DecodeQuantum_lenient(q, last) ==
    IF IsData(q[1]) /\ IsData(q[2]) /\ IsData(q[3]) /\ IsData(q[4])
    THEN [ok |-> TRUE,
          bytes |-> <<q[1] * 4 + q[2] \div 16, (q[2] % 16) * 16 + q[3] \div 4,
                      (q[3] % 4) * 64 + q[4]>>]
    ELSE IF last /\ IsData(q[1]) /\ IsData(q[2]) /\ IsData(q[3]) /\ q[4] = PadChar
    THEN [ok |-> TRUE,
          bytes |-> <<q[1] * 4 + q[2] \div 16, (q[2] % 16) * 16 + q[3] \div 4>>]
    ELSE IF last /\ IsData(q[1]) /\ IsData(q[2]) /\ q[3] = PadChar /\ q[4] = PadChar
    THEN [ok |-> TRUE, bytes |-> <<q[1] * 4 + q[2] \div 16>>]
    ELSE [ok |-> FALSE, bytes |-> <<>>]

\* One group of four symbols; only the last group may be padded, and the bits
\* a padded group leaves over must be zero.
DecodeQuantum(q, last) ==
    IF IsData(q[1]) /\ IsData(q[2]) /\ IsData(q[3]) /\ IsData(q[4])
    THEN [ok |-> TRUE,
          bytes |-> <<q[1] * 4 + q[2] \div 16, (q[2] % 16) * 16 + q[3] \div 4,
                      (q[3] % 4) * 64 + q[4]>>]
    ELSE IF last /\ IsData(q[1]) /\ IsData(q[2]) /\ IsData(q[3]) /\ q[4] = PadChar
            /\ q[3] % 4 = 0
    THEN [ok |-> TRUE,
          bytes |-> <<q[1] * 4 + q[2] \div 16, (q[2] % 16) * 16 + q[3] \div 4>>]
    ELSE IF last /\ IsData(q[1]) /\ IsData(q[2]) /\ q[3] = PadChar /\ q[4] = PadChar
            /\ q[2] % 16 = 0
    THEN [ok |-> TRUE, bytes |-> <<q[1] * 4 + q[2] \div 16>>]
    ELSE [ok |-> FALSE, bytes |-> <<>>]

\* general_purpose::STANDARD.decode.
RECURSIVE Base64Decode(_)
Base64Decode(s) ==
    IF Len(s) = 0 THEN [ok |-> TRUE, bytes |-> <<>>]
    ELSE IF Len(s) % 4 # 0 THEN [ok |-> FALSE, bytes |-> <<>>]
    ELSE LET head == DecodeQuantum(SubSeq(s, 1, 4), Len(s) = 4)
             rest == Base64Decode(SubSeq(s, 5, Len(s)))
         IN  IF head.ok /\ rest.ok
             THEN [ok |-> TRUE, bytes |-> head.bytes \o rest.bytes]
             ELSE [ok |-> FALSE, bytes |-> <<>>]

\* base64_to_biguint: Err("Base64 decode error"), Err("Empty bytes") or the value.
base64_to_biguint(b64) ==
    LET dec == Base64Decode(b64)
    IN  IF ~dec.ok THEN [err |-> "Base64DecodeError", val |-> 0]
        ELSE IF Len(dec.bytes) = 0 THEN [err |-> "EmptyBytes", val |-> 0]
        ELSE [err |-> "", val |-> from_bytes_be(dec.bytes)]

\* general_purpose::STANDARD.encode(v.to_bytes_be()).
EncodeField(v) == Base64Encode(to_bytes_be(v))

-----------------------------------------------------------------------------
(* generate_prime *)

\* candidate |= BigUint::one().
OrOne(c) == IF c % 2 = 0 THEN c + 1 ELSE c

\* candidate |= BigUint::one() << (bits - 1).
OrHighBit(c, bits) == IF c < Pow2(bits - 1) THEN c + Pow2(bits - 1) ELSE c

\* The candidate made of the draw raw = rng.gen_biguint(bits).
Candidate(raw, bits) == OrHighBit(OrOne(raw), bits)

\* Every candidate generate_prime(PrimeBits) can test.
CandidateSet == {Candidate(raw, PrimeBits) : raw \in 0..(Pow2(PrimeBits) - 1)}

\* The texts that differ from s in exactly one symbol.
OneByteChanges(s) ==
    {[s EXCEPT ![p] = c] : p \in 1..Len(s), c \in Chars} \ {s}

\* The candidates generate_prime can return: those some draw of bases passes.
GeneratablePrimes == {c \in CandidateSet : TRUE \in RoundOutcomes(c)}

\* The values of l the verifier can be handed once one symbol of the encoding
\* of a returned prime has been changed.
ChangedPrimeValues ==
    {base64_to_biguint(s).val :
        s \in {t \in UNION {OneByteChanges(EncodeField(c)) : c \in GeneratablePrimes} :
                 base64_to_biguint(t).err = ""}}

\* RoundOutcomes, computed once for the numbers the prover and the verifier test.
RoundOutcomesTable ==
    [n \in {m \in CandidateSet \cup ChangedPrimeValues : PreCheck(m) = "loop"}
       |-> RoundOutcomes(n)]

RoundOutcomesOf(n) ==
    IF n \in DOMAIN RoundOutcomesTable THEN RoundOutcomesTable[n] ELSE RoundOutcomes(n)

-----------------------------------------------------------------------------
(* compute_proof_internal *)

\* if iterations < 1000 || iterations > 10_000_000 (lib.rs:94).
ComputeRangeError(t) == t < MinIter \/ t > MaxIter

\* r reduced by the group modulus instead of by l.
ChallengeRemainder_modN(t, prime) == ModPow(2, t, Modulus)

\* r = 2^t mod l (lib.rs:108).
ChallengeRemainder(t, prime) == ModPow(2, t, prime)

\* chunks = iterations / chunk_size, remainder = iterations % chunk_size.
Chunks(t) == t \div ChunkSize

\* The squarings after the last whole chunk left out.
Remainder_dropped(t) == 0

Remainder(t) == t % ChunkSize

\* The squarings done so far, divided by the number of chunks.
ChunkProgress_mixedUnits(i, chunks) == (i * ChunkSize * 100) \div chunks

\* progress = (i * 100) / chunks, reported after the chunk with loop index i.
ChunkProgress(i, chunks) == (i * 100) \div chunks

\* A callback error propagated with "?".
CallbackAborts_onError(cbOk) == ~cbOk

\* "let _ = on_progress.call1(..)": whether a callback result ends the
\* computation.  The result is discarded, so it never does.
CallbackAborts(cbOk) == FALSE

\* q = (2^t - r) / l over the integers (lib.rs:142-144).
ProofQuotient(t, rem, prime) == (calculate_power_safely(t) - rem) \div prime

\* The VDFProof compute_proof_internal returns (lib.rs:147-155).
MakeProof(x, yv, rem, prime, t) ==
    [y  |-> EncodeField(yv),
     pi |-> EncodeField(ModPow(x, ProofQuotient(t, rem, prime), Modulus)),
     l  |-> EncodeField(prime),
     r  |-> EncodeField(rem),
     iterations |-> t]

NoProof == [y |-> <<>>, pi |-> <<>>, l |-> <<>>, r |-> <<>>, iterations |-> 0]
NoTamper == [field |-> "none", iter |-> FALSE]

\* The iteration counts handed to compute_proof, and written into a proof.
IterationValues == (MinIter - 1)..(MaxIter + 1)

Init ==
    /\ pc = "idle"
    /\ input = ""
    /\ iterations = 0
    /\ attempts = 0
    /\ cand = 0
    /\ mr = MRIdle
    /\ l = 0
    /\ r = 0
    /\ y = 0
    /\ chunk = 0
    /\ squarings = 0
    /\ reports = <<>>
    /\ cbFailures = 0
    /\ result = "none"
    /\ proof = NoProof
    /\ tampered = NoTamper
    /\ outcome = "none"

\* compute_proof(input, iterations, on_progress): the range check.
ComputeProof ==
    /\ pc = "idle"
    /\ \E in \in Inputs, t \in IterationValues :
          /\ input' = in
          /\ iterations' = t
          /\ IF ComputeRangeError(t)
             THEN pc' = "c_err" /\ result' = "InvalidIterationCount" /\ y' = y
             ELSE pc' = "gen" /\ result' = result /\ y' = Hash(in)
    /\ UNCHANGED <<attempts, cand, mr, l, r, chunk, squarings, reports,
                   cbFailures, proof, tampered, outcome>>

\* generate_prime: one attempt draws a candidate and hands it to is_probable_prime.
GenCandidate ==
    /\ pc = "gen"
    /\ attempts < MaxAttempts
    /\ \E raw \in 0..(Pow2(PrimeBits) - 1) :
          /\ cand' = Candidate(raw, PrimeBits)
          /\ mr' = MREnter(Candidate(raw, PrimeBits), GenRounds)
    /\ pc' = "gen_mr"
    /\ UNCHANGED <<input, iterations, attempts, l, r, y, chunk, squarings,
                   reports, cbFailures, result, proof, tampered, outcome>>

\* is_probable_prime: one turn of the witness loop, on a freshly drawn base.
MRRound ==
    /\ mr.res = "run"
    /\ \E ok \in RoundOutcomesOf(mr.n) : mr' = MRAfterRound(mr, ok)
    /\ UNCHANGED <<pc, input, iterations, attempts, cand, l, r, y, chunk,
                   squarings, reports, cbFailures, result, proof, tampered, outcome>>

\* generate_prime: the candidate is returned, or the next attempt begins;
\* on return compute_proof_internal computes r.
GenResult ==
    /\ pc = "gen_mr"
    /\ mr.res \in {"true", "false"}
    /\ IF mr.res = "true"
       THEN /\ l' = cand
            /\ r' = ChallengeRemainder(iterations, cand)
            /\ pc' = "square"
            /\ attempts' = attempts
       ELSE /\ attempts' = attempts + 1
            /\ pc' = "gen"
            /\ UNCHANGED <<l, r>>
    /\ mr' = MRIdle
    /\ UNCHANGED <<input, iterations, cand, y, chunk, squarings, reports,
                   cbFailures, result, proof, tampered, outcome>>

\* generate_prime: Err("Failed to generate prime") after max_attempts.
GenExhausted ==
    /\ pc = "gen"
    /\ attempts = MaxAttempts
    /\ pc' = "c_err"
    /\ result' = "PrimeGenerationExhausted"
    /\ UNCHANGED <<input, iterations, attempts, cand, mr, l, r, y, chunk,
                   squarings, reports, cbFailures, proof, tampered, outcome>>

\* One turn of "for i in 0..chunks": chunk_size squarings, then the progress call.
ChunkStep ==
    /\ pc = "square"
    /\ chunk < Chunks(iterations)
    /\ y' = SquareTimes(y, ChunkSize)
    /\ squarings' = squarings + ChunkSize
    /\ reports' = Append(reports, [pct |-> ChunkProgress(chunk, Chunks(iterations)),
                                   at  |-> squarings + ChunkSize])
    /\ chunk' = chunk + 1
    /\ \E cbOk \in BOOLEAN :
          /\ cbFailures' = IF cbOk THEN cbFailures ELSE cbFailures + 1
          /\ IF CallbackAborts(cbOk)
             THEN pc' = "c_err" /\ result' = "CallbackError"
             ELSE pc' = pc /\ result' = result
    /\ UNCHANGED <<input, iterations, attempts, cand, mr, l, r, proof,
                   tampered, outcome>>

\* "for _ in 0..remainder": the squarings left over after the chunks.
RemainderStep ==
    /\ pc = "square"
    /\ chunk = Chunks(iterations)
    /\ y' = SquareTimes(y, Remainder(iterations))
    /\ squarings' = squarings + Remainder(iterations)
    /\ pc' = "final"
    /\ UNCHANGED <<input, iterations, attempts, cand, mr, l, r, chunk, reports,
                   cbFailures, result, proof, tampered, outcome>>

\* The final progress call, with 100.
FinalReport ==
    /\ pc = "final"
    /\ reports' = Append(reports, [pct |-> 100, at |-> squarings])
    /\ \E cbOk \in BOOLEAN :
          /\ cbFailures' = IF cbOk THEN cbFailures ELSE cbFailures + 1
          /\ IF CallbackAborts(cbOk)
             THEN pc' = "c_err" /\ result' = "CallbackError"
             ELSE pc' = "build" /\ result' = result
    /\ UNCHANGED <<input, iterations, attempts, cand, mr, l, r, y, chunk,
                   squarings, proof, tampered, outcome>>

\* q, pi and the returned proof.
BuildProof ==
    /\ pc = "build"
    /\ proof' = MakeProof(Hash(input), y, r, l, iterations)
    /\ result' = "Ok"
    /\ pc' = "done"
    /\ UNCHANGED <<input, iterations, attempts, cand, mr, l, r, y, chunk,
                   squarings, reports, cbFailures, tampered, outcome>>

-----------------------------------------------------------------------------
(* The proof between compute_proof and verify_proof *)

ProofFields == {"y", "pi", "l", "r"}

\* compute_proof has returned: its locals are gone.
DropLocals ==
    /\ attempts' = 0
    /\ cand' = 0
    /\ l' = 0
    /\ r' = 0
    /\ y' = 0
    /\ chunk' = 0
    /\ squarings' = 0
    /\ reports' = <<>>
    /\ cbFailures' = 0

\* One byte of one of the four encoded fields is changed.
TamperField ==
    /\ pc \in {"done", "held"}
    /\ tampered.field = "none"
    /\ \E f \in ProofFields :
          /\ \E s \in OneByteChanges(proof[f]) : proof' = [proof EXCEPT ![f] = s]
          /\ tampered' = [tampered EXCEPT !.field = f]
    /\ pc' = "held"
    /\ DropLocals
    /\ UNCHANGED <<input, iterations, mr, result, outcome>>

\* The iterations field is overwritten.
TamperIterations ==
    /\ pc \in {"done", "held"}
    /\ ~tampered.iter
    /\ \E t \in IterationValues \ {proof.iterations} :
          proof' = [proof EXCEPT !.iterations = t]
    /\ tampered' = [tampered EXCEPT !.iter = TRUE]
    /\ pc' = "held"
    /\ DropLocals
    /\ UNCHANGED <<input, iterations, mr, result, outcome>>

-----------------------------------------------------------------------------
(* verify_proof_internal *)

\* if proof.iterations < 1000 || proof.iterations > 10_000_000 (lib.rs:160).
VerifyRangeError(t) == t < MinIter \/ t > MaxIter

\* The decoded fields, in the order of lib.rs:171-174.
Decoded(p) == [y  |-> base64_to_biguint(p.y), pi |-> base64_to_biguint(p.pi),
               l  |-> base64_to_biguint(p.l), r  |-> base64_to_biguint(p.r)]

\* The fields decoded before the range check is made.
VerifyPrefix_decodeFirst(p) ==
    LET d == Decoded(p)
    IN  IF d.y.err # "" THEN d.y.err
        ELSE IF d.pi.err # "" THEN d.pi.err
        ELSE IF d.l.err # "" THEN d.l.err
        ELSE IF d.r.err # "" THEN d.r.err
        ELSE IF VerifyRangeError(p.iterations) THEN "InvalidIterationCount"
        ELSE IF Bits(d.l.val) < MinLBits THEN "InvalidProofPrime"
        ELSE "prime_test"

\* verify_proof_internal up to the call of is_probable_prime: the error it
\* returns, or "prime_test" when is_probable_prime(&l, 5) is called.
VerifyPrefix(p) ==
    LET d == Decoded(p)
    IN  IF VerifyRangeError(p.iterations) THEN "InvalidIterationCount"
        ELSE IF d.y.err # "" THEN d.y.err
        ELSE IF d.pi.err # "" THEN d.pi.err
        ELSE IF d.l.err # "" THEN d.l.err
        ELSE IF d.r.err # "" THEN d.r.err
        ELSE IF Bits(d.l.val) < MinLBits THEN "InvalidProofPrime"
        ELSE "prime_test"

\* The product compared without its final reduction modulo N.
VerifyEquation_unreduced(in, p) ==
    LET d == Decoded(p)
        pi_l == ModPow(d.pi.val, d.l.val, Modulus)
        x_r  == ModPow(Hash(in), d.r.val, Modulus)
    IN  d.y.val = pi_l * x_r

\* A verifier that also recomputes r from the iterations field.
VerifyEquation_checksR(in, p) ==
    LET d == Decoded(p)
        pi_l == ModPow(d.pi.val, d.l.val, Modulus)
        x_r  == ModPow(Hash(in), d.r.val, Modulus)
    IN  /\ d.r.val = ModPow(2, p.iterations, d.l.val)
        /\ d.y.val = (pi_l * x_r) % Modulus

\* y == (pi^l * x^r) % N (lib.rs:182-186).
VerifyEquation(in, p) ==
    LET d == Decoded(p)
        pi_l == ModPow(d.pi.val, d.l.val, Modulus)
        x_r  == ModPow(Hash(in), d.r.val, Modulus)
    IN  d.y.val = (pi_l * x_r) % Modulus

\* verify_proof_internal from the answer of is_probable_prime on.
VerifyVerdict(in, p, primeOk) ==
    IF ~primeOk THEN "InvalidProofPrime"
    ELSE IF VerifyEquation(in, p) THEN "true" ELSE "false"

\* verify_proof(input, proof) up to the primality test.
VerifyProof ==
    /\ pc \in {"done", "held"}
    /\ LET pre == VerifyPrefix(proof)
       IN  IF pre = "prime_test"
           THEN /\ mr' = MREnter(Decoded(proof).l.val, VerifyRounds)
                /\ pc' = "v_mr"
                /\ outcome' = outcome
           ELSE /\ mr' = mr
                /\ pc' = "v_done"
                /\ outcome' = pre
    /\ DropLocals
    /\ UNCHANGED <<input, iterations, result, proof, tampered>>

\* verify_proof: is_probable_prime has answered.
VerifyFinish ==
    /\ pc = "v_mr"
    /\ mr.res \in {"true", "false"}
    /\ outcome' = VerifyVerdict(input, proof, mr.res = "true")
    /\ pc' = "v_done"
    /\ mr' = MRIdle
    /\ UNCHANGED <<input, iterations, attempts, cand, l, r, y, chunk, squarings,
                   reports, cbFailures, result, proof, tampered>>

Next ==
    \/ ComputeProof
    \/ GenCandidate
    \/ MRRound
    \/ GenResult
    \/ GenExhausted
    \/ ChunkStep
    \/ RemainderStep
    \/ FinalReport
    \/ BuildProof
    \/ TamperField
    \/ TamperIterations
    \/ VerifyProof
    \/ VerifyFinish

Spec == Init /\ [][Next]_vars

-----------------------------------------------------------------------------
(* is_probable_prime on its own *)

\* The numbers handed to is_probable_prime.
PrimeInputs == 0..Pow2(PrimeBits + 1) \cup {100, 104729}

InitPrime ==
    /\ pc = "p_idle"
    /\ input = ""
    /\ iterations = 0
    /\ attempts = 0
    /\ cand = 0
    /\ mr = MRIdle
    /\ l = 0
    /\ r = 0
    /\ y = 0
    /\ chunk = 0
    /\ squarings = 0
    /\ reports = <<>>
    /\ cbFailures = 0
    /\ result = "none"
    /\ proof = NoProof
    /\ tampered = NoTamper
    /\ outcome = "none"

\* is_probable_prime(n, k) is called.
PrimeCall ==
    /\ pc = "p_idle"
    /\ \E n \in PrimeInputs, k \in 1..MaxRounds : mr' = MREnter(n, k)
    /\ pc' = "p_run"
    /\ UNCHANGED <<input, iterations, attempts, cand, l, r, y, chunk, squarings,
                   reports, cbFailures, result, proof, tampered, outcome>>

\* is_probable_prime returns.
PrimeReturn ==
    /\ pc = "p_run"
    /\ mr.res \in {"true", "false"}
    /\ outcome' = mr.res
    /\ pc' = "p_done"
    /\ UNCHANGED <<input, iterations, attempts, cand, mr, l, r, y, chunk,
                   squarings, reports, cbFailures, result, proof, tampered>>

NextPrime ==
    \/ PrimeCall
    \/ MRRound
    \/ PrimeReturn

SpecPrime == InitPrime /\ [][NextPrime]_vars

-----------------------------------------------------------------------------
(* Properties *)

InRange(t) == t >= MinIter /\ t <= MaxIter

\* Primality by trial division.
IsPrimeNumber(n) == n > 1 /\ \A d \in 2..(n - 1) : n % d # 0

DecodeErrors == {"Base64DecodeError", "EmptyBytes"}

\* verify_proof has returned on the proof exactly as compute_proof produced it.
VerifiedUntouched == pc = "v_done" /\ result = "Ok" /\ tampered = NoTamper

\* verify_proof has returned on a proof with one byte of one field changed.
VerifiedOneByteChanged ==
    pc = "v_done" /\ result = "Ok" /\ tampered.field # "none" /\ ~tampered.iter

\* C1 as stated: verify_proof returns true on every proof compute_proof
\* produced, whatever prime was generated and whatever bases are sampled.
C1_VerifyAcceptsEveryComputedProof ==
    VerifiedUntouched => outcome = "true"

\* C1, amended: on a proof compute_proof produced, verify_proof returns true
\* whenever the challenge l is prime; the only other outcome is
\* InvalidProofPrime, and only for a composite l that passed generate_prime.
C1_VerifyAcceptsComputedProofWithPrimeL ==
    VerifiedUntouched =>
        /\ outcome \in {"true", "InvalidProofPrime"}
        /\ IsPrimeNumber(Decoded(proof).l.val) => outcome = "true"

C1_Witness ==
    /\ VerifiedUntouched
    /\ outcome = "true"
    /\ proof.iterations = MaxIter
    /\ IsPrimeNumber(Decoded(proof).l.val)

\* C2 as stated: after a one-byte change of y, pi, l or r, verify_proof
\* returns false or a decode error, and nothing else.
C2_ChangedByteIsRejectedOrUndecodable ==
    VerifiedOneByteChanged => outcome \in {"false"} \cup DecodeErrors

\* The l the verifier decodes is a prime of at least MinLBits bits.
DecodedLIsGoodPrime(p) ==
    /\ Decoded(p).l.err = ""
    /\ Bits(Decoded(p).l.val) >= MinLBits
    /\ IsPrimeNumber(Decoded(p).l.val)

\* C2, amended: after a one-byte change of one field, verify_proof returns
\* false, a decode error exactly when the changed field no longer decodes,
\* InvalidProofPrime (only when the l it decodes is not a prime of the
\* required length: the changed field is l, or l was a composite that passed
\* generate_prime), or true (never when the changed field is y, and only when
\* the changed value still satisfies the verification equation); never
\* InvalidIterationCount.
C2_ChangedByteOutcomes ==
    VerifiedOneByteChanged =>
        /\ outcome \in {"false", "true", "InvalidProofPrime"} \cup DecodeErrors
        /\ outcome = "InvalidProofPrime" => ~DecodedLIsGoodPrime(proof)
        /\ outcome = "true" => tampered.field # "y" /\ VerifyEquation(input, proof)
        /\ outcome \in DecodeErrors <=>
               base64_to_biguint(proof[tampered.field]).err # ""

C2_Witness ==
    /\ VerifiedOneByteChanged
    /\ tampered.field = "l"
    /\ outcome = "InvalidProofPrime"
    /\ Bits(Decoded(proof).l.val) >= MinLBits


\* compute_proof has done nothing beyond its range check.
NothingComputed ==
    /\ attempts = 0 /\ cand = 0 /\ mr = MRIdle /\ l = 0 /\ r = 0
    /\ chunk = 0 /\ squarings = 0 /\ reports = <<>> /\ cbFailures = 0
    /\ proof = NoProof

\* C3: compute_proof with iterations out of range fails with
\* InvalidIterationCount before any prime is generated, any squaring is done
\* or any progress is reported; verify_proof on a proof whose iterations are
\* out of range returns InvalidIterationCount, whatever state the other
\* fields are in, and never reaches the primality test.
C3_IterationRangeCheckedFirst ==
    /\ (pc # "idle" /\ ~InRange(iterations)) =>
           pc = "c_err" /\ result = "InvalidIterationCount" /\ NothingComputed
    /\ (pc = "v_done" /\ ~InRange(proof.iterations)) =>
           outcome = "InvalidIterationCount"
    /\ pc = "v_mr" => InRange(proof.iterations)
    /\ outcome = "InvalidIterationCount" => ~InRange(proof.iterations)

\* A proof computed for MinIter, its iterations set to MinIter - 1 and its l
\* made undecodable, is refused for its iterations.
C3_Witness ==
    /\ pc = "v_done"
    /\ iterations = MinIter
    /\ proof.iterations = MinIter - 1
    /\ tampered.field = "l"
    /\ Decoded(proof).l.err # ""
    /\ outcome = "InvalidIterationCount"

\* C4: the values passed to the progress callback never decrease and lie in
\* 0..100, and once the squaring is over the last value reported is 100,
\* issued after all iterations squarings.
C4_ProgressMonotoneEndsAt100 ==
    /\ \A k \in 1..Len(reports) :
          /\ reports[k].pct \in 0..100
          /\ k > 1 => reports[k - 1].pct <= reports[k].pct
    /\ pc \in {"build", "done"} =>
          /\ Len(reports) >= 1
          /\ reports[Len(reports)].pct = 100
          /\ reports[Len(reports)].at = iterations
          /\ squarings = iterations

C4_Witness ==
    /\ pc = "done"
    /\ Len(reports) = 4
    /\ reports[3].pct > reports[2].pct
    /\ Remainder(iterations) > 0

\* The progress calls compute_proof makes for t iterations.
ProgressCalls(t) ==
    [k \in 1..(Chunks(t) + 1) |->
        IF k <= Chunks(t)
        THEN [pct |-> ChunkProgress(k - 1, Chunks(t)), at |-> k * ChunkSize]
        ELSE [pct |-> 100, at |-> t]]

\* C5: failures of the progress callback change nothing: no run ends because
\* of one, and a finished run has made the t squarings and the progress calls
\* of a run whose callbacks all succeed, and returns the proof determined by
\* the input, t and the prime.
C5_CallbackFailuresIgnored ==
    /\ result # "CallbackError"
    /\ Len(reports) >= cbFailures
    /\ pc = "done" =>
          /\ result = "Ok"
          /\ squarings = iterations
          /\ reports = ProgressCalls(iterations)
          /\ proof = MakeProof(Hash(input), SquareTimes(Hash(input), iterations),
                               ChallengeRemainder(iterations, l), l, iterations)

\* Every callback of a run of three chunks failed.
C5_Witness ==
    /\ pc = "done"
    /\ result = "Ok"
    /\ Len(reports) = 4
    /\ cbFailures = Len(reports)

\* C6: a produced proof has 0 <= r < l, and l divides 2^t - r exactly, 2^t
\* being the value of calculate_power_safely.
C6_RemainderAndExactDivision ==
    pc = "done" =>
        LET lv == Decoded(proof).l.val
            rv == Decoded(proof).r.val
            power == calculate_power_safely(proof.iterations)
        IN  /\ Decoded(proof).l.err = "" /\ Decoded(proof).r.err = ""
            /\ power = Pow2(proof.iterations)
            /\ 0 <= rv /\ rv < lv
            /\ (power - rv) % lv = 0
            /\ ((power - rv) \div lv) * lv + rv = power

C6_Witness ==
    /\ pc = "done"
    /\ Decoded(proof).r.val > 1
    /\ ProofQuotient(proof.iterations, Decoded(proof).r.val, Decoded(proof).l.val) > 1

\* C7: the y of a produced proof is the result of exactly t successive
\* squarings of hash(input) modulo N, made as t / ChunkSize chunks and
\* t % ChunkSize further squarings, whatever prime l was drawn.
C7_YDependsOnInputAndT ==
    pc = "done" =>
        /\ Decoded(proof).y.err = ""
        /\ Decoded(proof).y.val = SquareTimes(Hash(input), iterations)
        /\ chunk = Chunks(iterations)
        /\ squarings = Chunks(iterations) * ChunkSize + Remainder(iterations)
        /\ squarings = iterations

C7_Witness ==
    /\ pc = "done"
    /\ Chunks(iterations) >= 2
    /\ Remainder(iterations) > 0
    /\ l = Pow2(PrimeBits) - 1

\* C8: is_probable_prime returns true on 2, 3, 7 and 104729 and false on 0,
\* 1, 4, 9 and 100, for every round count and every draw of bases; it returns
\* false on n <= 1 and on even n > 2 without drawing a base; and a false from
\* the witness loop comes with the first failing base, the bases before it
\* having passed and none drawn after it.
C8_IsProbablePrime ==
    /\ mr.res \in {"true", "false"} =>
          /\ mr.n \in {2, 3, 7, 104729} => mr.res = "true"
          /\ mr.n \in {0, 1, 4, 9, 100} => mr.res = "false"
          /\ (mr.n <= 1 \/ (mr.n > 2 /\ mr.n % 2 = 0)) =>
                 mr.res = "false" /\ mr.sampled = 0
          /\ (mr.res = "false" /\ mr.sampled > 0) =>
                 mr.sampled = mr.round + 1 /\ mr.sampled <= mr.k
          /\ (mr.res = "true" /\ mr.n > 3) =>
                 mr.sampled = mr.k /\ mr.round = mr.k
          /\ IsPrimeNumber(mr.n) => mr.res = "true"
    /\ pc = "p_done" => outcome = mr.res

C8_Witness ==
    /\ pc = "p_done"
    /\ mr.n = 104729
    /\ mr.k = MaxRounds
    /\ outcome = "true"

\* C9 as stated: after the k-th chunk the callback is called once, with
\* floor(k * 100 / total_chunks).
C9_ChunkReportCountsFinishedChunk ==
    \A k \in 1..Len(reports) :
        k <= Chunks(iterations) =>
            /\ reports[k].at = k * ChunkSize
            /\ reports[k].pct = (k * 100) \div Chunks(iterations)

\* The outcome verify_proof has for proof p when is_probable_prime answers
\* primeOk.
VerifyOutcome(in, p, primeOk) ==
    IF VerifyPrefix(p) = "prime_test" THEN VerifyVerdict(in, p, primeOk)
    ELSE VerifyPrefix(p)

\* C10: verify_proof reads the iterations field for the range check only: the
\* outcome it has on a proof with iterations in range is the outcome on the
\* same y, pi, l and r with any other iterations in range.
C10_IterationsOnlyRangeChecked ==
    (pc = "v_done" /\ InRange(proof.iterations)) =>
        \A t \in MinIter..MaxIter :
            VerifyOutcome(input, [proof EXCEPT !.iterations = t],
                          outcome # "InvalidProofPrime") = outcome

\* A proof computed for one t is accepted under another t, for which its r
\* is not 2^t mod l.
C10_Witness ==
    /\ pc = "v_done"
    /\ tampered = [field |-> "none", iter |-> TRUE]
    /\ InRange(proof.iterations)
    /\ outcome = "true"
    /\ Decoded(proof).r.val #
           ChallengeRemainder(proof.iterations, Decoded(proof).l.val)

=============================================================================
